---------------------------- MODULE Spec2Model ----------------------------
(***************************************************************************)
(* Model of financial-tsf-archive:                                         *)
(*   - apply_delisting_returns / apply_delisting_returns_alt               *)
(*     (src/src/wrds_crsp_compustat/pull_CRSP_stock.py)                    *)
(*   - Dataset and Dataset.organize_time_series (src/models/dataset.py)    *)
(*                                                                         *)
(* Returns are carried in hundredths (-0.3 is -30, -1 is -100, 0.05 is 5). *)
(* A nullable cell is a sequence of length at most one: NaN is <<>>, the   *)
(* value v is <<v>>.                                                       *)
(***************************************************************************)
EXTENDS Integers, Sequences, FiniteSets, TLC

VARIABLES
    df,        \* the batch of SecurityReturnRecord rows being adjusted
    dfIn,      \* the batch as it was pulled (before adjustment)
    phase,     \* "raw" | "adjusted" | "alt" | "idle"
    call,      \* arguments of a call of organize_time_series
    outcome,   \* what that call did: NaN before it, <<result>> after it
    ds,        \* the Dataset object: NaN before construction, <<fields>> after
    last       \* the last constructor or setter call made on the Dataset

delistVars == <<df, dfIn, phase>>

organizeVars == <<call, outcome>>

datasetVars == <<ds, last>>

vars == <<df, dfIn, phase, call, outcome, ds, last>>

(***************************************************************************)
(* Bounds of the model.                                                    *)
(***************************************************************************)
MaxRows == 1

MaxLen == 3

MaxDay == 2

DsMaxLen == 2

(***************************************************************************)
(* Nullable cells.                                                         *)
(***************************************************************************)
NaN == <<>>

Some(v) == <<v>>

isna(c) == c = NaN

notna(c) == c # NaN

Val(c) == c[1]

\* the record of a call: the method, the exception it raised ("none" on
\* return) and, for set_y_pred, the value passed and the organize flag
Call(op, raised, arg, organize) ==
    [op |-> op, raised |-> raised, arg |-> arg, organize |-> organize]

NoCall == Call("none", "none", NaN, FALSE)

(***************************************************************************)
(* apply_delisting_returns                                                 *)
(***************************************************************************)
ImputedLoss == -30

FullLoss == -100

Threshold == 200

RangeLo == 551

RangeStop == 575

\* the range written one short: list(range(551, 574))
S1_rangeShort == {500, 520, 580, 584} \cup (RangeLo .. (RangeStop - 2))

\* [500, 520, 580, 584] + list(range(551, 575))
S1 == {500, 520, 580, 584} \cup (RangeLo .. (RangeStop - 1))

\* Series.isin: NaN is in no list of codes
isin(c, codes) == notna(c) /\ Val(c) \in codes

\* bool & float64 Series: pandas casts the float operand to bool, NaN as False
AsBool(c) == notna(c) /\ Val(c) # 0

\* a bool compared with a number counts as 0 or 1
BoolAsInt(b) == IF b THEN 1 ELSE 0

\* df[dl].isna() & df["dlstcd"].notna() & df["dlstcd"] >= 200
\* Python binds & tighter than >=, so the comparison applies to the conjunction.
SecondCond(dl, dlstcd) ==
    BoolAsInt(isna(dl) /\ notna(dlstcd) /\ AsBool(dlstcd)) >= Threshold

\* np.select(condlist, choicelist, default): the first true condition decides
Select(conds, choices, default) ==
    IF \E i \in 1..Len(conds) : conds[i]
    THEN choices[CHOOSE i \in 1..Len(conds) :
                    conds[i] /\ \A j \in 1..(i - 1) : ~conds[j]]
    ELSE default

\* the np.select call of one delisting column, for one row
Impute(dl, dlstcd) ==
    Select(<<isin(dlstcd, S1) /\ isna(dl), SecondCond(dl, dlstcd), TRUE>>,
           <<Some(ImputedLoss), Some(FullLoss), dl>>,
           dl)

\* Series.fillna(other): a null cell takes the other column's cell of the row
fillna(c, other) == IF isna(c) THEN other ELSE c

\* the backfill done from the delisting columns as pulled, before imputation
AdjustRow_backfillFirst(r) ==
    [dlstcd |-> r.dlstcd,
     dlret  |-> Impute(r.dlret, r.dlstcd),
     dlretx |-> Impute(r.dlretx, r.dlstcd),
     ret    |-> fillna(r.ret, r.dlret),
     retx   |-> fillna(r.retx, r.dlretx)]

AdjustRow(r) ==
    LET dlret  == Impute(r.dlret, r.dlstcd)
        dlretx == Impute(r.dlretx, r.dlstcd)
    IN  [dlstcd |-> r.dlstcd,
         dlret  |-> dlret,
         dlretx |-> dlretx,
         ret    |-> fillna(r.ret, dlret),
         retx   |-> fillna(r.retx, dlretx)]

apply_delisting_returns(d) == [i \in DOMAIN d |-> AdjustRow(d[i])]

(***************************************************************************)
(* apply_delisting_returns_alt                                             *)
(***************************************************************************)
\* NaN + x is NaN
Add(a, b) == IF isna(a) \/ isna(b) THEN NaN ELSE Some(Val(a) + Val(b))

AltRow(r) ==
    LET dlret == fillna(r.dlret, Some(0))
        sum   == Add(r.ret, dlret)
    IN  [r EXCEPT !.dlret = dlret,
                  !.ret = IF isna(sum) /\ dlret # Some(0) THEN dlret ELSE sum]

apply_delisting_returns_alt(d) == [i \in DOMAIN d |-> AltRow(d[i])]

(***************************************************************************)
(* Records pulled from the monthly file.                                   *)
(***************************************************************************)
ReturnCells == {NaN, Some(5)}

DelistCells == {NaN, Some(-10)}

DlstcdCells ==
    {NaN} \cup {Some(c) : c \in {100, 199, 200, 400, 500, 520, 550, 551,
                                 560, 574, 575, 580, 584, 585}}

Rows ==
    [ret: ReturnCells, retx: ReturnCells, dlret: DelistCells,
     dlretx: DelistCells, dlstcd: DlstcdCells]

Batches == UNION {[1..n -> Rows] : n \in 0..MaxRows}

InitDelist ==
    /\ df \in Batches
    /\ dfIn = df
    /\ phase = "raw"
    /\ call = NaN
    /\ outcome = NaN
    /\ ds = NaN
    /\ last = NoCall

ApplyDelistingReturns ==
    /\ phase = "raw"
    /\ df' = apply_delisting_returns(df)
    /\ phase' = "adjusted"
    /\ UNCHANGED <<dfIn, organizeVars, datasetVars>>

ApplyDelistingReturnsAlt ==
    /\ phase = "raw"
    /\ df' = apply_delisting_returns_alt(df)
    /\ phase' = "alt"
    /\ UNCHANGED <<dfIn, organizeVars, datasetVars>>

NextDelist == ApplyDelistingReturns \/ ApplyDelistingReturnsAlt

SpecDelist == InitDelist /\ [][NextDelist]_vars

(***************************************************************************)
(* Tables (pandas Series and DataFrames).                                  *)
(*                                                                         *)
(* A table is [isSeries, dateCol, rows].  dateCol is the spelling of the   *)
(* table's date column, "none" when it has none.  rows is the sequence of  *)
(* rows in storage order, each [label, id]: label is the row's date entry  *)
(* (its cell of the date column when there is one, its index label         *)
(* otherwise) and id stands for the row's data cells.  A label is          *)
(* [fmt, day]: fmt "iso" and "us" are two written forms of day, "ts" is a  *)
(* Timestamp and "bad" is text that is no date.  None is NaN, a table t is *)
(* Some(t); an optional filter date is NaN or Some(day).                   *)
(***************************************************************************)
Timestamp(d) == [fmt |-> "ts", day |-> d]

BadLabel == [fmt |-> "bad", day |-> 0]

Range(s) == {s[i] : i \in DOMAIN s}

\* str.lower of a column name
lower(name) ==
    CASE name = "Date" -> "date"
      [] name = "DATE" -> "date"
      [] OTHER -> name

\* pd.to_datetime on one label
Parses(l) == l.fmt # "bad"

to_datetime(l) == Timestamp(l.day)

\* the sort left out: the rows stay in storage order
sort_index_skipped(rows) == {rows}

\* DataFrame.sort_index: the rows in ascending order of the index; the order of
\* rows with equal labels is not fixed (the default sort is not stable), so
\* every ascending arrangement is a possible result.
sort_index(rows) ==
    LET n == Len(rows)
        perms == {f \in [1..n -> 1..n] : \A i, j \in 1..n : i # j => f[i] # f[j]}
    IN  {[i \in 1..n |-> rows[f[i]]] : f \in
            {g \in perms : \A i \in 1..(n - 1) :
                    rows[g[i]].label.day <= rows[g[i + 1]].label.day}}

\* the end bound taken as exclusive
loc_to_exclusive(rows, stop) ==
    LET keep(r) == r.label.day < stop IN SelectSeq(rows, keep)

\* time_series.loc[:filter_end_date] on a sorted DatetimeIndex
loc_to(rows, stop) ==
    LET keep(r) == r.label.day <= stop IN SelectSeq(rows, keep)

\* time_series.loc[filter_start_date:] on a sorted DatetimeIndex
loc_from(rows, start) ==
    LET keep(r) == r.label.day >= start IN SelectSeq(rows, keep)

\* the test of line 71: "date" in list(time_series.columns.str.lower())
HasDateColumn(t) == lower(t.dateCol) = "date"

\* time_series.set_index("date") finds the column only under that very name
SetIndexFinds(t) == t.dateCol = "date"

Frame(rows) == [isSeries |-> FALSE, dateCol |-> "none", rows |-> rows]

Returned(v, a) == [raised |-> "none", result |-> v, arg |-> a]

Raised(e, a) == [raised |-> e, result |-> NaN, arg |-> a]

\* organize_time_series: the set of possible outcomes of a call.  An outcome
\* is [raised, result, arg]: the exception raised ("none" on return), the
\* value returned, and the caller's argument object as the call leaves it
\* (line 73 assigns the converted index to the caller's own frame when no
\* copy was made by to_frame or set_index).
organize_time_series(time_series, filter_start_date, filter_end_date, enforce_not_none) ==
    IF time_series = NaN
    THEN IF enforce_not_none
         THEN {Raised("ValueError", time_series)}
         ELSE {Returned(NaN, time_series)}
    ELSE
      LET t == Val(time_series)
          copied == t.isSeries \/ HasDateColumn(t)
          converted == [i \in DOMAIN t.rows |->
                           [t.rows[i] EXCEPT !.label = to_datetime(@)]]
          argAfter == IF copied THEN time_series
                      ELSE Some([t EXCEPT !.rows = converted])
          cutEnd(rows) == IF filter_end_date # NaN
                          THEN loc_to(rows, Val(filter_end_date)) ELSE rows
          cutStart(rows) == IF filter_start_date # NaN
                            THEN loc_from(rows, Val(filter_start_date)) ELSE rows
      IN  IF HasDateColumn(t) /\ ~SetIndexFinds(t)
          THEN {Raised("KeyError", time_series)}
          ELSE IF \E i \in DOMAIN t.rows : ~Parses(t.rows[i].label)
          THEN {Raised("ValueError", time_series)}
          ELSE {Returned(Some(Frame(cutStart(cutEnd(sorted)))), argAfter) :
                    sorted \in sort_index(converted)}

(***************************************************************************)
(* Calls of organize_time_series on its own.                               *)
(***************************************************************************)
Labels ==
    [fmt : {"iso", "us"}, day : 1..MaxDay] \cup {BadLabel}

RowSeqs(labels, n) ==
    {[i \in DOMAIN ls |-> [label |-> ls[i], id |-> i]] :
        ls \in UNION {[1..m -> labels] : m \in 0..n}}

\* every Series and every frame (without a date column, or with one under
\* each spelling) of up to n rows
Tables(labels, n) ==
    {[isSeries |-> TRUE, dateCol |-> "none", rows |-> rs] : rs \in RowSeqs(labels, n)}
    \cup [isSeries : {FALSE}, dateCol : {"none", "date", "Date", "DATE"},
          rows : RowSeqs(labels, n)]

FilterDates == {NaN} \cup {Some(d) : d \in 0..(MaxDay + 1)}

InitOrganize ==
    /\ call \in [time_series : {NaN} \cup {Some(t) : t \in Tables(Labels, MaxLen)},
                 filter_start_date : FilterDates,
                 filter_end_date : FilterDates,
                 enforce_not_none : BOOLEAN]
    /\ outcome = NaN
    /\ df = <<>>
    /\ dfIn = <<>>
    /\ phase = "idle"
    /\ ds = NaN
    /\ last = NoCall

Organize ==
    /\ call # NaN
    /\ outcome = NaN
    /\ \E o \in organize_time_series(call.time_series, call.filter_start_date,
                                     call.filter_end_date, call.enforce_not_none) :
          outcome' = Some(o)
    /\ UNCHANGED <<call, delistVars, datasetVars>>

NextOrganize == Organize

SpecOrganize == InitOrganize /\ [][NextOrganize]_vars

(***************************************************************************)
(* Dataset.  An object is [y, X, y_pred, has_y_pred]; has_y_pred tells     *)
(* whether the attribute y_pred has been assigned at all.                  *)
(***************************************************************************)
Done(self) == [raised |-> "none", self |-> self]

Failed(e, self) == [raised |-> e, self |-> self]

\* Dataset.__init__: the possible outcomes; on return self is the new object
init(y, X, filter_start_date, filter_end_date) ==
    UNION {
        IF oy.raised # "none" THEN {Failed(oy.raised, NaN)}
        ELSE {IF ox.raised # "none" THEN Failed(ox.raised, NaN)
              ELSE Done(Some([y |-> oy.result, X |-> ox.result,
                              y_pred |-> NaN, has_y_pred |-> TRUE])) :
                 ox \in organize_time_series(X, filter_start_date,
                                             filter_end_date, FALSE)} :
        oy \in organize_time_series(y, filter_start_date, filter_end_date, TRUE)}

\* Dataset.from_organized_time_series: cls.__new__ and three assignments
from_organized_time_series(y, X) ==
    Some([y |-> y, X |-> X, y_pred |-> NaN, has_y_pred |-> FALSE])

create_from_y(y) == from_organized_time_series(y, NaN)

get_y(self) == [raised |-> "none", result |-> self.y]

get_X(self) == [raised |-> "none", result |-> self.X]

get_y_pred(self) ==
    IF self.has_y_pred
    THEN [raised |-> "none", result |-> self.y_pred]
    ELSE [raised |-> "AttributeError", result |-> NaN]

\* self.y.index[0] and self.y.index[-1]: what evaluating them raises
IndexEnds(self) ==
    IF self.y = NaN THEN "AttributeError"
    ELSE IF Len(Val(self.y).rows) = 0 THEN "IndexError"
    ELSE "none"

First(self) == Some(Val(self.y).rows[1].label.day)

Last(self) == Some(Val(self.y).rows[Len(Val(self.y).rows)].label.day)

set_X(self, X) ==
    IF IndexEnds(self) # "none" THEN {Failed(IndexEnds(self), self)}
    ELSE {IF o.raised # "none" THEN Failed(o.raised, self)
          ELSE Done([self EXCEPT !.X = o.result]) :
             o \in organize_time_series(X, First(self), Last(self), FALSE)}

\* the assignment of line 56 moved into an else branch: the organized value
\* is kept
set_y_pred_else(self, y_pred, organize) ==
    IF ~organize
    THEN {[raised |-> "none",
           self |-> [self EXCEPT !.y_pred = y_pred, !.has_y_pred = TRUE]]}
    ELSE IF IndexEnds(self) # "none" THEN {Failed(IndexEnds(self), self)}
    ELSE {IF o.raised # "none" THEN Failed(o.raised, self)
          ELSE Done([self EXCEPT !.y_pred = o.result, !.has_y_pred = TRUE]) :
             o \in organize_time_series(y_pred, First(self), Last(self), FALSE)}

\* set_y_pred: under organize the organized value is assigned and then
\* overwritten by the argument object, as the call of line 51 left it
set_y_pred(self, y_pred, organize) ==
    IF ~organize
    THEN {[raised |-> "none",
           self |-> [self EXCEPT !.y_pred = y_pred, !.has_y_pred = TRUE]]}
    ELSE IF IndexEnds(self) # "none" THEN {Failed(IndexEnds(self), self)}
    ELSE {IF o.raised # "none" THEN Failed(o.raised, self)
          ELSE Done([self EXCEPT !.y_pred = o.arg, !.has_y_pred = TRUE]) :
             o \in organize_time_series(y_pred, First(self), Last(self), FALSE)}

(***************************************************************************)
(* Calls made on a Dataset.                                                *)
(***************************************************************************)
Iso(d) == [fmt |-> "iso", day |-> d]

Tbl(isSeries, dateCol, labels) ==
    [isSeries |-> isSeries, dateCol |-> dateCol,
     rows |-> [i \in DOMAIN labels |-> [label |-> labels[i], id |-> i]]]

\* values passed as y: None, an empty frame, frames and a Series out of order
\* or in order, a frame whose date column is spelled "Date", a frame with a
\* label that is no date
YArgs ==
    {NaN,
     Some(Tbl(FALSE, "none", <<>>)),
     Some(Tbl(FALSE, "date", <<Iso(2), Iso(1)>>)),
     Some(Tbl(FALSE, "none", <<Iso(1), Iso(1)>>)),
     Some(Tbl(TRUE, "none", <<Iso(1), Iso(2)>>)),
     Some(Tbl(FALSE, "Date", <<Iso(1)>>)),
     Some(Tbl(FALSE, "none", <<BadLabel>>))}

\* values passed as X
XArgs ==
    {NaN,
     Some(Tbl(FALSE, "date", <<Iso(2), Iso(1)>>)),
     Some(Tbl(TRUE, "none", <<Iso(1)>>)),
     Some(Tbl(FALSE, "DATE", <<Iso(2)>>)),
     Some(Tbl(FALSE, "none", <<BadLabel>>))}

\* values passed as y_pred: None and every table of up to DsMaxLen rows
DsLabels == {Iso(1), Iso(2), BadLabel}

YPredArgs == {NaN} \cup {Some(t) : t \in Tables(DsLabels, DsMaxLen)}

\* what organize_time_series returns for the values of a set
Organized(args) ==
    {o.result : o \in {q \in UNION {organize_time_series(a, NaN, NaN, FALSE) :
                                       a \in args} : q.raised = "none"}}

DsFilterDates == {NaN, Some(1), Some(2)}

InitDataset ==
    /\ ds = NaN
    /\ last = NoCall
    /\ df = <<>>
    /\ dfIn = <<>>
    /\ phase = "idle"
    /\ call = NaN
    /\ outcome = NaN

New ==
    /\ ds = NaN
    /\ \E y \in YArgs, X \in XArgs, s \in DsFilterDates, e \in DsFilterDates :
          \E o \in init(y, X, s, e) :
              /\ ds' = o.self
              /\ last' = Call("init", o.raised, NaN, FALSE)
    /\ UNCHANGED <<delistVars, organizeVars>>

FromOrganizedTimeSeries ==
    /\ ds = NaN
    /\ \E y \in Organized(YArgs), X \in Organized(XArgs) :
          /\ ds' = from_organized_time_series(y, X)
          /\ last' = Call("from_organized_time_series", "none", NaN, FALSE)
    /\ UNCHANGED <<delistVars, organizeVars>>

CreateFromY ==
    /\ ds = NaN
    /\ \E y \in Organized(YArgs) :
          /\ ds' = create_from_y(y)
          /\ last' = Call("create_from_y", "none", NaN, FALSE)
    /\ UNCHANGED <<delistVars, organizeVars>>

SetX ==
    /\ ds # NaN
    /\ \E X \in XArgs :
          \E o \in set_X(Val(ds), X) :
              /\ ds' = Some(o.self)
              /\ last' = Call("set_X", o.raised, NaN, FALSE)
    /\ UNCHANGED <<delistVars, organizeVars>>

SetYPred ==
    /\ ds # NaN
    /\ \E v \in YPredArgs, organize \in BOOLEAN :
          \E o \in set_y_pred(Val(ds), v, organize) :
              /\ ds' = Some(o.self)
              /\ last' = Call("set_y_pred", o.raised,
                              IF o.raised = "none" THEN v ELSE NaN, organize)
    /\ UNCHANGED <<delistVars, organizeVars>>

NextDataset == New \/ FromOrganizedTimeSeries \/ CreateFromY \/ SetX \/ SetYPred

SpecDataset == InitDataset /\ [][NextDataset]_vars

Spec == SpecDataset

(***************************************************************************)
(* Properties of apply_delisting_returns.                                  *)
(***************************************************************************)
Adjusted == phase = "adjusted"

\* the set S1 as the specification writes it
ClaimS1 == {500, 520, 580, 584} \cup (551 .. 574)

InS2(c) == notna(c) /\ Val(c) >= 200 /\ Val(c) \notin ClaimS1

\* C1: a missing delisting return with a code >= 200 outside S1 becomes -1.00,
\* for dlret and for dlretx.
C1_FullLoss ==
    Adjusted =>
        \A i \in DOMAIN df :
            /\ (isna(dfIn[i].dlret) /\ InS2(dfIn[i].dlstcd))
                   => df[i].dlret = Some(-100)
            /\ (isna(dfIn[i].dlretx) /\ InS2(dfIn[i].dlstcd))
                   => df[i].dlretx = Some(-100)

\* C2: a missing delisting return with a code in S1 becomes -0.30, never
\* -1.00, for dlret and, independently, for dlretx.
C2_ImputedLoss ==
    Adjusted =>
        \A i \in DOMAIN df :
            /\ (isna(dfIn[i].dlret) /\ isin(dfIn[i].dlstcd, ClaimS1))
                   => (df[i].dlret = Some(-30) /\ df[i].dlret # Some(-100))
            /\ (isna(dfIn[i].dlretx) /\ isin(dfIn[i].dlstcd, ClaimS1))
                   => (df[i].dlretx = Some(-30) /\ df[i].dlretx # Some(-100))

\* a row with the upper bound 574 of the range, dlret missing and dlretx given:
\* dlret is imputed and dlretx is kept
C2_Witness ==
    /\ Adjusted
    /\ \E i \in DOMAIN df :
          /\ dfIn[i].dlstcd = Some(574)
          /\ isna(dfIn[i].dlret) /\ notna(dfIn[i].dlretx)
          /\ df[i].dlret = Some(-30) /\ df[i].dlretx = dfIn[i].dlretx

\* C3: a return that was null takes the row's own delisting return as it
\* stands after imputation, a return that was given is unchanged (ret with
\* dlret, retx with dlretx); a row with no code, no delisting return and no
\* return keeps its return null.
C3_Backfill ==
    Adjusted =>
        \A i \in DOMAIN df :
            /\ isna(dfIn[i].ret) => df[i].ret = df[i].dlret
            /\ notna(dfIn[i].ret) => df[i].ret = dfIn[i].ret
            /\ isna(dfIn[i].retx) => df[i].retx = df[i].dlretx
            /\ notna(dfIn[i].retx) => df[i].retx = dfIn[i].retx
            /\ (isna(dfIn[i].dlstcd) /\ isna(dfIn[i].dlret) /\ isna(dfIn[i].ret))
                   => isna(df[i].ret)

\* a null return filled with a delisting return imputed in the same pass
C3_Witness ==
    /\ Adjusted
    /\ \E i \in DOMAIN df :
          /\ isna(dfIn[i].ret) /\ isna(dfIn[i].dlret)
          /\ dfIn[i].dlstcd = Some(560)
          /\ df[i].ret = Some(-30)
          /\ notna(dfIn[i].retx) /\ df[i].retx = dfIn[i].retx

\* C4: after the adjustment every row with a non-null delisting code has
\* non-null ret and non-null retx.
C4_ReturnsPresent ==
    Adjusted =>
        \A i \in DOMAIN df :
            notna(df[i].dlstcd) => (notna(df[i].ret) /\ notna(df[i].retx))

(***************************************************************************)
(* Properties of organize_time_series.                                     *)
(***************************************************************************)
\* the call has returned a table
ReturnedTable ==
    /\ call # NaN
    /\ outcome # NaN
    /\ Val(outcome).raised = "none"
    /\ Val(outcome).result # NaN

InputRows == Val(call.time_series).rows

OutputRows == Val(Val(outcome).result).rows

Ascending(rows) ==
    \A i \in 1..(Len(rows) - 1) : rows[i].label.day <= rows[i + 1].label.day

StrictlyAscending(rows) ==
    \A i \in 1..(Len(rows) - 1) : rows[i].label.day < rows[i + 1].label.day

DistinctDates(rows) ==
    \A i, j \in DOMAIN rows : i # j => rows[i].label.day # rows[j].label.day

\* C5 as stated: the index of the returned table is strictly ascending,
\* whatever the order and multiplicity of the input's dates.
C5_StrictlyAscending == ReturnedTable => StrictlyAscending(OutputRows)

\* C5 amended: the index of the returned table is ascending; it is strictly
\* ascending when no two input rows fall on the same date, and two input rows
\* of the same date within the bounds are both returned.
C5_Ascending ==
    ReturnedTable =>
        /\ Ascending(OutputRows)
        /\ \A i \in DOMAIN OutputRows : OutputRows[i].label.fmt = "ts"
        /\ DistinctDates(InputRows) => StrictlyAscending(OutputRows)
        /\ (call.filter_start_date = NaN /\ call.filter_end_date = NaN)
               => Len(OutputRows) = Len(InputRows)

\* an input out of order, with one date written twice, comes back sorted with
\* that date twice
C5_Witness ==
    /\ ReturnedTable
    /\ Len(InputRows) = 3
    /\ InputRows[1].label.day > InputRows[2].label.day
    /\ Len(OutputRows) = 3
    /\ OutputRows[1].label.day = OutputRows[2].label.day
    /\ OutputRows[2].label.day < OutputRows[3].label.day
    /\ \E i, j \in DOMAIN InputRows :
          /\ InputRows[i].label.fmt = "iso" /\ InputRows[j].label.fmt = "us"
          /\ InputRows[i].label.day = InputRows[j].label.day

WithinBounds(d) ==
    /\ call.filter_start_date # NaN => Val(call.filter_start_date) <= d
    /\ call.filter_end_date # NaN => d <= Val(call.filter_end_date)

\* C6: the returned table holds exactly the input rows whose date lies within
\* the given bounds, both bounds included; a bound not given removes nothing.
C6_InclusiveFilter ==
    ReturnedTable =>
        /\ Len(OutputRows) =
               Cardinality({i \in DOMAIN InputRows : WithinBounds(InputRows[i].label.day)})
        /\ {<<r.id, r.label.day>> : r \in Range(OutputRows)} =
               {<<r.id, r.label.day>> :
                    r \in {q \in Range(InputRows) : WithinBounds(q.label.day)}}

\* rows dated exactly start and exactly end are kept, a row outside is dropped
C6_Witness ==
    /\ ReturnedTable
    /\ call.filter_start_date = Some(1)
    /\ call.filter_end_date = Some(1)
    /\ Len(InputRows) = 3
    /\ Len(OutputRows) = 2
    /\ \A i \in DOMAIN OutputRows : OutputRows[i].label.day = 1

\* C9: whenever the input has a column whose name is "date" under
\* case-insensitive comparison (and its dates convert), the call succeeds and
\* the returned table is indexed by that column's dates.
C9_DateColumnAnyCase ==
    (/\ call # NaN
     /\ outcome # NaN
     /\ call.time_series # NaN
     /\ lower(Val(call.time_series).dateCol) = "date"
     /\ \A i \in DOMAIN InputRows : InputRows[i].label.fmt # "bad")
        => /\ Val(outcome).raised = "none"
           /\ Val(outcome).result # NaN
           /\ Val(Val(outcome).result).dateCol = "none"

(***************************************************************************)
(* Properties of Dataset.                                                  *)
(***************************************************************************)
\* C7: in every reachable state of a constructed Dataset get_y() returns a
\* non-null table (a null y makes construction fail instead).
C7_YNeverNull == ds # NaN => get_y(Val(ds)).result # NaN

\* C8 as stated: after set_y_pred(v, organize), get_y_pred() returns exactly v,
\* for organize=False and for organize=True.
C8_StoredVerbatim ==
    last.op = "set_y_pred" =>
        /\ last.raised = "none"
        /\ get_y_pred(Val(ds)) = [raised |-> "none", result |-> last.arg]

SameRowsSameOrder(a, b) ==
    \/ a = NaN /\ b = NaN
    \/ /\ a # NaN /\ b # NaN
       /\ Val(a).isSeries = Val(b).isSeries
       /\ Val(a).dateCol = Val(b).dateCol
       /\ Len(Val(a).rows) = Len(Val(b).rows)
       /\ \A i \in DOMAIN Val(a).rows :
             /\ Val(a).rows[i].id = Val(b).rows[i].id
             /\ Val(a).rows[i].label.day = Val(b).rows[i].label.day

\* C8 amended: when set_y_pred(v, organize) returns, get_y_pred() returns v's
\* rows in v's order with none removed, for either value of organize.  With
\* organize=False the call always returns and the stored value is exactly v.
\* With organize=True the call can raise, and a frame v without a date column
\* has had its index converted to dates in place; any other v is stored
\* exactly.
C8_StoredUnorganized ==
    last.op = "set_y_pred" =>
        /\ ~last.organize => last.raised = "none"
        /\ last.raised = "none" =>
              /\ get_y_pred(Val(ds)).raised = "none"
              /\ SameRowsSameOrder(get_y_pred(Val(ds)).result, last.arg)
              /\ (\/ ~last.organize
                  \/ last.arg = NaN
                  \/ Val(last.arg).isSeries
                  \/ Val(last.arg).dateCol # "none")
                    => get_y_pred(Val(ds)).result = last.arg

\* under organize=True a frame out of order and reaching past y is stored
\* with its rows as passed
C8_Witness ==
    /\ last.op = "set_y_pred"
    /\ last.raised = "none"
    /\ last.organize
    /\ Val(ds).y # NaN
    /\ Len(Val(Val(ds).y).rows) = 1
    /\ last.arg # NaN
    /\ Len(Val(last.arg).rows) = 2
    /\ Val(last.arg).rows[1].label.day > Val(last.arg).rows[2].label.day
    /\ Val(ds).y_pred = last.arg

\* C10: on every construction path y_pred is initialised: get_y_pred() does
\* not raise, and returns None until set_y_pred has been called.
C10_YPredInitialised ==
    ds # NaN =>
        /\ get_y_pred(Val(ds)).raised = "none"
        /\ last.op \in {"init", "from_organized_time_series", "create_from_y"}
               => get_y_pred(Val(ds)).result = NaN

=============================================================================
